---------------------------- MODULE Spec2Model ----------------------------
(***************************************************************************)
(* A model of the impresso linguistic-processing pipeline                  *)
(* (lib/spacy_linguistic_processing.py):                                   *)
(*   - the title classifier analyze_title_in_text, a pure function, over   *)
(*     Python strings modelled as sequences of code points;                *)
(*   - LinguisticProcessing.process_doc / run, the per-record admission    *)
(*     gate, language resolution, statistics and sink.                     *)
(*                                                                         *)
(* A Python str is a sequence of one-character strings.  Python's None,    *)
(* True and False are the strings "None", "True", "False", so that a dict  *)
(* value may be any of the three.                                          *)
(***************************************************************************)
EXTENDS Integers, Sequences, FiniteSets, TLC

VARIABLES
    arg_title,        \* analyze_title_in_text: the title argument
    arg_full_text,    \* analyze_title_in_text: the full_text argument
    ret_analysis,     \* analyze_title_in_text: the returned dict, or PyNone before the call
    ret_line,         \* the source line of the return statement taken (0 before the call)
    args,             \* self.args (argparse.Namespace) of the run
    lang_ident_data,  \* self.lang_ident_data
    stats,            \* self.stats (collections.Counter)
    language_proc_units, \* self.language_proc_units: languages with a loaded pipeline
    sink,             \* the lines written to the output file, in order
    nread,            \* number of lines yielded by get_next_doc so far (the loop's i)
    nnull,            \* how many of them held null and were skipped
    json_obj,         \* the record handed to process_doc last (PyNone before the first)
    processed_doc,    \* what process_doc returned for it (PyNone: rejected)
    doc_locals,       \* process_doc's locals at its return: lang, text_len, the return's line
    exc,              \* the uncaught exception that ended the run (PyNone: none)
    pc,               \* position of the run
    exit_code,        \* the status the process exited with (NotExited while it runs)
    outfile,          \* the local output file: "absent", "written", "timestamp-only"
    remote,           \* the object at the remote destination (PyNone: there is none)
    calls,            \* how often the run called each external collaborator
    upload_locals,    \* upload_file_to_s3's locals at its return: the line reached last
    publishers,       \* the run instances that publish to one destination side by side
    upload_order,     \* these instances, in the order in which their uploads completed
    validated,        \* what validate_document returned for the record (PyNone: not called)
    argv,             \* the options as given on the command line
    aggregate         \* the corpus aggregator's output for the published file (PyNone: not run)

vars == <<arg_title, arg_full_text, ret_analysis, ret_line, args, lang_ident_data,
          stats, language_proc_units, sink, nread, nnull, json_obj, processed_doc,
          doc_locals, exc, pc, exit_code, outfile, remote, calls,
          upload_locals, publishers, upload_order, validated, argv, aggregate>>

titleVars == <<arg_title, arg_full_text, ret_analysis, ret_line>>
pubVars == <<publishers, upload_order>>
runVars == <<args, lang_ident_data, stats, language_proc_units, sink, nread, nnull,
             json_obj, processed_doc, doc_locals, exc, pc, exit_code, outfile,
             remote, calls, upload_locals, validated, argv, aggregate>>

-----------------------------------------------------------------------------
(* Python values *)

PyNone == "None"
PyTrue == "True"
PyFalse == "False"
PyBool(b) == IF b THEN PyTrue ELSE PyFalse

\* the value of exit_code while the process has not exited
NotExited == -1

-----------------------------------------------------------------------------
(* Python str operations, on sequences of code points.  Code points outside *)
(* ASCII are named by their number: "U+00C3" is one character.              *)

LowerLetters == <<"a","b","c","d","e","f","g","h","i","j","k","l","m",
                  "n","o","p","q","r","s","t","u","v","w","x","y","z","U+00E3">>
UpperLetters == <<"A","B","C","D","E","F","G","H","I","J","K","L","M",
                  "N","O","P","Q","R","S","T","U","V","W","X","Y","Z","U+00C3">>
DigitChars == {"0","1","2","3","4","5","6","7","8","9"}
WhitespaceChars == {" ", "\t", "\n", "\r"}

Range(s) == {s[i] : i \in 1..Len(s)}

\* str.upper() on one character
upper_char(c) ==
    IF \E i \in 1..Len(LowerLetters) : LowerLetters[i] = c
    THEN UpperLetters[CHOOSE i \in 1..Len(LowerLetters) : LowerLetters[i] = c]
    ELSE c

\* str.upper()
upper(s) == [i \in 1..Len(s) |-> upper_char(s[i])]

\* str.isalnum() on one character
isalnum(c) == c \in Range(LowerLetters) \cup Range(UpperLetters) \cup DigitChars

\* str.strip(): drop leading and trailing whitespace
strip(s) ==
    LET keep == {i \in 1..Len(s) : s[i] \notin WhitespaceChars}
    IN IF keep = {} THEN <<>>
       ELSE LET first == CHOOSE i \in keep : \A j \in keep : i <= j
                last == CHOOSE i \in keep : \A j \in keep : j <= i
            IN SubSeq(s, first, last)

\* str.startswith(prefix)
startswith(s, prefix) ==
    /\ Len(prefix) <= Len(s)
    /\ SubSeq(s, 1, Len(prefix)) = prefix

\* str.endswith(suffix)
endswith(s, suffix) ==
    /\ Len(suffix) <= Len(s)
    /\ SubSeq(s, Len(s) - Len(suffix) + 1, Len(s)) = suffix

\* sub in s
contains(s, sub) ==
    \E i \in 0..(Len(s) - Len(sub)) : SubSeq(s, i + 1, i + Len(sub)) = sub

\* "".join(c for c in s if c.isalnum())
alphanum(s) == SelectSeq(s, isalnum)

\* s[:-3]
drop_last3(s) == SubSeq(s, 1, Len(s) - 3)

ELLIPSIS == <<".", ".", ".">>

-----------------------------------------------------------------------------
(* The ADVERTISEMENT pattern (re.IGNORECASE + re.VERBOSE), matched with     *)
(* re.match, i.e. anchored at the start of the title:                       *)
(*     ^ \s* adv\. \s* \d+ \s* page \s* \d+ \s*                             *)
(*   |   \s* publicitU+00C3U+00A9 \s* \d+ page \s* \d+ \s* $                *)
(* The "^" belongs to the first alternative and the "$" to the second, so   *)
(* the first alternative matches any title that begins with an              *)
(* advertisement head.  A position is an index into the title; 0 is "no     *)
(* match".  The character classes that follow one another are disjoint, so  *)
(* greedy matching without backtracking is exact.                           *)

\* \s* from position i: the first position at or after i that holds no whitespace
skip_ws(s, i) ==
    CHOOSE j \in i..(Len(s) + 1) :
        /\ \A k \in i..(j - 1) : s[k] \in WhitespaceChars
        /\ (j = Len(s) + 1 \/ s[j] \notin WhitespaceChars)

\* \d+ from position i: the position after the digits, 0 if there is none
match_digits(s, i) ==
    IF i = 0 THEN 0
    ELSE LET j == CHOOSE j \in i..(Len(s) + 1) :
                      /\ \A k \in i..(j - 1) : s[k] \in DigitChars
                      /\ (j = Len(s) + 1 \/ s[j] \notin DigitChars)
         IN IF j > i THEN j ELSE 0

\* a literal, case-insensitively, from position i
match_literal(s, i, lit) ==
    IF i = 0 \/ i + Len(lit) - 1 > Len(s) THEN 0
    ELSE IF \A k \in 1..Len(lit) : upper_char(s[i + k - 1]) = upper_char(lit[k])
         THEN i + Len(lit)
         ELSE 0

match_ws(s, i) == IF i = 0 THEN 0 ELSE skip_ws(s, i)

LIT_ADV == <<"a", "d", "v", ".">>
LIT_PAGE == <<"p", "a", "g", "e">>
LIT_PUBLICITE == <<"p", "u", "b", "l", "i", "c", "i", "t", "U+00C3", "U+00A9">>

\* first alternative: \s* adv\. \s* \d+ \s* page \s* \d+ \s*
match_adv(s) ==
    LET p1 == match_literal(s, match_ws(s, 1), LIT_ADV)
        p2 == match_digits(s, match_ws(s, p1))
        p3 == match_literal(s, match_ws(s, p2), LIT_PAGE)
        p4 == match_digits(s, match_ws(s, p3))
    IN p4 # 0

\* second alternative: \s* publicit.. \s* \d+ page \s* \d+ \s* $
match_publicite(s) ==
    LET p1 == match_literal(s, match_ws(s, 1), LIT_PUBLICITE)
        p2 == match_digits(s, match_ws(s, p1))
        p3 == match_literal(s, p2, LIT_PAGE)
        p4 == match_digits(s, match_ws(s, p3))
        p5 == match_ws(s, p4)
    IN p5 = Len(s) + 1

\* re.match(ADVERTISEMENT, title)
re_match_ADVERTISEMENT(title) == match_adv(title) \/ match_publicite(title)

-----------------------------------------------------------------------------
(* analyze_title_in_text *)

PLACEHOLDERS ==
    { <<"U","N","K","N","O","W","N">>,
      <<"U","N","T","I","T","L","E","D">>,
      <<"U","N","T","I","T","L","E","D"," ","A","R","T","I","C","L","E">>,
      <<"U","N","T","I","T","L","E","D"," ","A","D">> }

\* title.strip().upper() in {"UNKNOWN", "UNTITLED", "UNTITLED ARTICLE", "UNTITLED AD"}
is_placeholder(title) == upper(strip(title)) \in PLACEHOLDERS

\* the minimal title length of the infix rule
INFIX_MIN_TITLE_LEN == 20

\* the infix rule without its length condition
infix_eligible_no_length(title, len_title) == " " \in Range(title)

\* " " in title and len_title >= 20
infix_eligible(title, len_title) ==
    /\ " " \in Range(title)
    /\ len_title >= INFIX_MIN_TITLE_LEN

\* the dict analysis as initialised before the first check
initial_analysis(len_title, len_full_text) ==
    [ exact_prefix  |-> PyFalse,
      ellipsis      |-> PyNone,
      alnum_prefix  |-> PyNone,
      alnum_infix   |-> PyNone,
      unknown       |-> PyNone,
      title_longer  |-> PyBool(len_title > len_full_text),
      advertisement |-> PyNone ]

\* analyze_after_prefix without the second exact-prefix check: the stripped
\* title goes on to the length and alphanumeric rules
analyze_after_prefix_no_retry(title, full_text, analysis0) ==
    LET has_ellipsis == endswith(title, ELLIPSIS)
        analysis == IF has_ellipsis
                    THEN [analysis0 EXCEPT !.ellipsis = PyTrue]
                    ELSE analysis0
        title1 == IF has_ellipsis THEN drop_last3(title) ELSE title
        alphanum_title == alphanum(title1)
        alphanum_text == alphanum(full_text)
    IN IF Len(title1) > Len(full_text)
       THEN [analysis |-> analysis, line |-> 159]
       ELSE IF startswith(alphanum_text, alphanum_title)
       THEN [analysis |-> [analysis EXCEPT !.alnum_prefix = PyTrue], line |-> 165]
       ELSE IF infix_eligible(title1, Len(title1)) /\ contains(alphanum_text, alphanum_title)
       THEN [analysis |-> [analysis EXCEPT !.alnum_infix = PyTrue], line |-> 174]
       ELSE [analysis |-> analysis, line |-> 175]

\* the part of the function after the first exact-prefix check: the ellipsis
\* is stripped, and the checks run on the stripped title
analyze_after_prefix(title, full_text, analysis0) ==
    LET has_ellipsis == endswith(title, ELLIPSIS)
        analysis == IF has_ellipsis
                    THEN [analysis0 EXCEPT !.ellipsis = PyTrue]
                    ELSE analysis0
        title1 == IF has_ellipsis THEN drop_last3(title) ELSE title
        len_title == Len(title1)
        len_full_text == Len(full_text)
        alphanum_title == alphanum(title1)
        alphanum_text == alphanum(full_text)
    IN IF startswith(full_text, title1)
       THEN [analysis |-> [analysis EXCEPT !.exact_prefix = PyTrue], line |-> 154]
       ELSE IF len_title > len_full_text
       THEN [analysis |-> analysis, line |-> 159]
       ELSE IF startswith(alphanum_text, alphanum_title)
       THEN [analysis |-> [analysis EXCEPT !.alnum_prefix = PyTrue], line |-> 165]
       ELSE IF infix_eligible(title1, len_title) /\ contains(alphanum_text, alphanum_title)
       THEN [analysis |-> [analysis EXCEPT !.alnum_infix = PyTrue], line |-> 174]
       ELSE [analysis |-> analysis, line |-> 175]

\* analyze_steps without the first exact-prefix check: the ellipsis is
\* stripped before the title is compared with the full text
analyze_steps_ellipsis_first(title, full_text) ==
    LET analysis == initial_analysis(Len(title), Len(full_text))
    IN IF is_placeholder(title)
       THEN [analysis |-> [analysis EXCEPT !.unknown = PyTrue], line |-> 133]
       ELSE IF re_match_ADVERTISEMENT(title)
       THEN [analysis |-> [analysis EXCEPT !.advertisement = PyTrue], line |-> 137]
       ELSE analyze_after_prefix(title, full_text, analysis)

\* the whole function: the returned dict and the line of the return taken
analyze_steps(title, full_text) ==
    LET analysis == initial_analysis(Len(title), Len(full_text))
    IN IF is_placeholder(title)
       THEN [analysis |-> [analysis EXCEPT !.unknown = PyTrue], line |-> 133]
       ELSE IF re_match_ADVERTISEMENT(title)
       THEN [analysis |-> [analysis EXCEPT !.advertisement = PyTrue], line |-> 137]
       ELSE IF startswith(full_text, title)
       THEN [analysis |-> [analysis EXCEPT !.exact_prefix = PyTrue], line |-> 144]
       ELSE analyze_after_prefix(title, full_text, analysis)

analyze_title_in_text(title, full_text) == analyze_steps(title, full_text).analysis

FLAGS == {"exact_prefix", "ellipsis", "alnum_prefix", "alnum_infix", "unknown",
          "title_longer", "advertisement"}

-----------------------------------------------------------------------------
(* The classifier on its own: the arguments are drawn from bounded families *)
(* of titles and full texts, and one action applies the function.           *)

\* longest run of one letter in a generated title
MaxRun == 10

Rep(c, n) == [i \in 1..n |-> c]

Leads == { <<>>, <<" ">> }
Seps == { <<>>, <<" ">>, <<"-">> }
Tails == { <<>>, ELLIPSIS }

\* titles made of a run of "a", a separator and a run of "b"
PlainTitles ==
    { lead \o Rep("a", n) \o sep \o Rep("b", m) \o tail :
        lead \in Leads, n \in 0..MaxRun, sep \in Seps, m \in 0..MaxRun, tail \in Tails }

\* placeholders, advertisement heads and near misses of both
SpecialCores ==
    { <<"U","N","K","N","O","W","N">>,
      <<"u","n","k","n","o","w","n">>,
      <<"U","n","t","i","t","l","e","d">>,
      <<"U","N","T","I","T","L","E","D"," ","A","R","T","I","C","L","E">>,
      <<"u","n","t","i","t","l","e","d"," ","a","d">>,
      <<"U","N","T","I","T","L","E","D"," ","A","D","S">>,
      <<"a","d","v",".","1","p","a","g","e","2">>,
      <<"A","d","v","."," ","1","2"," ","P","A","G","E"," ","3">>,
      <<"a","d","v","."," ","1"," ","p","a","g","e">>,
      <<"a","d","v",".","1","p","a","g","e","2"," ","x">>,
      <<"p","u","b","l","i","c","i","t","U+00C3","U+00A9","1","p","a","g","e","2">>,
      <<"P","u","b","l","i","c","i","t","U+00E3","U+00A9"," ","1","p","a","g","e"," ","2">>,
      <<"p","u","b","l","i","c","i","t","U+00C3","U+00A9"," ","1"," ","p","a","g","e"," ","2">> }

SpecialTitles ==
    { lead \o core \o tail :
        lead \in Leads, core \in SpecialCores, tail \in Tails \cup { <<" ">> } }

Titles == PlainTitles \cup SpecialTitles

strip_ellipsis(t) == IF endswith(t, ELLIPSIS) THEN drop_last3(t) ELSE t

\* full texts related to the title in the ways the rules distinguish
FullTexts(t) ==
    { pre \o body \o post :
        pre \in { <<>>, <<"x">>, <<"x", " ">> },
        body \in { t, strip_ellipsis(t), alphanum(t), <<>> },
        post \in { <<>>, <<"y">> } }

InitTitle ==
    /\ arg_title \in Titles
    /\ arg_full_text \in FullTexts(arg_title)
    /\ ret_analysis = PyNone
    /\ ret_line = 0
    /\ args = PyNone
    /\ lang_ident_data = PyNone
    /\ stats = PyNone
    /\ language_proc_units = {}
    /\ sink = <<>>
    /\ nread = 0
    /\ nnull = 0
    /\ json_obj = PyNone
    /\ processed_doc = PyNone
    /\ doc_locals = PyNone
    /\ exc = PyNone
    /\ pc = "classifier"
    /\ exit_code = NotExited
    /\ outfile = "absent"
    /\ remote = PyNone
    /\ calls = PyNone
    /\ upload_locals = PyNone
    /\ publishers = PyNone
    /\ upload_order = <<>>
    /\ validated = PyNone
    /\ argv = PyNone
    /\ aggregate = PyNone

\* the call analyze_title_in_text(title, full_text)
Analyze ==
    /\ pc = "classifier"
    /\ ret_line = 0
    /\ ret_analysis' = analyze_title_in_text(arg_title, arg_full_text)
    /\ ret_line' = analyze_steps(arg_title, arg_full_text).line
    /\ UNCHANGED <<arg_title, arg_full_text>>
    /\ UNCHANGED runVars
    /\ UNCHANGED pubVars

NextTitle == Analyze

SpecTitle == InitTitle /\ [][NextTitle]_vars

Returned == ret_line # 0

-----------------------------------------------------------------------------
(* LinguisticProcessing: the statistics, the admission gate, the language   *)
(* resolution and process_doc.                                              *)

\* the languages with a spaCy model
LANG2MODEL == {"de", "fr", "en", "lb"}

TitleStatusKey(k) == "TITLE-STATUS-" \o k

StatKeys ==
    { "CONTENT-ITEMS-NO-TEXT", "CONTENT-ITEMS-WITH-TITLE", "CONTENT-ITEMS-WITHOUT-TITLE",
      "CONTENT-ITEMS-EMPTY", "CONTENT-ITEMS-SHORT", "CONTENT-ITEMS-LONG",
      "LANG-FROM-ARG", "LANG-FROM-LID", "LANG-FROM-DOC", "LANG-NONE",
      "CONTENT-ITEMS-TITLE-unknown", "CONTENT-ITEMS-OK" }
    \cup { TitleStatusKey(k) : k \in FLAGS }

\* collections.Counter(): every key reads 0 until it is incremented
EmptyCounter == [k \in StatKeys |-> 0]

\* self.stats[key] += 1; with key None, nothing
Inc(st, key) == IF key = PyNone THEN st ELSE [st EXCEPT ![key] = @ + 1]

\* dict.get(key): None when the key is absent
Get(d, key) == IF key \in DOMAIN d THEN d[key] ELSE PyNone

\* truth value of a str-or-None
Truthy(v) == v # PyNone /\ v # ""

\* read_langident: the dict built from the lines of the language-identification
\* file; a line without "id" raises KeyError, which is logged and skipped; a
\* later line of the same id overwrites an earlier one
read_langident(lines) ==
    LET withId == {i \in 1..Len(lines) : "id" \in DOMAIN lines[i]}
        ids == {lines[i].id : i \in withId}
        lastOf(d) == CHOOSE i \in withId :
                        /\ lines[i].id = d
                        /\ \A j \in withId : lines[j].id = d => j <= i
    IN [d \in ids |-> Get(lines[lastOf(d)], "lg")]

\* json_obj.get("ci_id", json_obj.get("ci_ref", json_obj["id"])): the default
\* arguments are evaluated first, so json_obj["id"] is always read
raises_KeyError(json) == "id" \notin DOMAIN json

docid_of(json) ==
    IF "ci_id" \in DOMAIN json THEN json.ci_id
    ELSE IF "ci_ref" \in DOMAIN json THEN json.ci_ref
    ELSE json.id

\* the length gate with the comparisons of the bounds made inclusive
length_gate_inclusive(text_len, min_doc_length, max_doc_length) ==
    IF text_len = 0 THEN "CONTENT-ITEMS-EMPTY"
    ELSE IF text_len <= min_doc_length THEN "CONTENT-ITEMS-SHORT"
    ELSE IF text_len >= max_doc_length THEN "CONTENT-ITEMS-LONG"
    ELSE PyNone

\* the tests on the length without the one for long texts
length_gate_without_long(text_len, min_doc_length, max_doc_length) ==
    IF text_len = 0 THEN "CONTENT-ITEMS-EMPTY"
    ELSE IF text_len < min_doc_length THEN "CONTENT-ITEMS-SHORT"
    ELSE PyNone

\* the length gate: the counter of the rejection, None when the record passes
length_gate(text_len, min_doc_length, max_doc_length) ==
    IF text_len = 0 THEN "CONTENT-ITEMS-EMPTY"
    ELSE IF text_len < min_doc_length THEN "CONTENT-ITEMS-SHORT"
    ELSE IF text_len > max_doc_length THEN "CONTENT-ITEMS-LONG"
    ELSE PyNone

\* the language resolution with the record's own lg consulted before the
\* lookup table
resolve_language_doc_first(a, lid, docid, json) ==
    LET lang_doc == Get(json, "lg")
        lang_lid == IF a.lid # PyNone /\ DOMAIN lid # {} THEN Get(lid, docid) ELSE PyNone
    IN IF Truthy(a.language)
       THEN [lang |-> a.language, counter |-> "LANG-FROM-ARG",
             lid_path |-> "default", rejected |-> FALSE]
       ELSE IF Truthy(lang_doc)
       THEN [lang |-> lang_doc, counter |-> "LANG-FROM-DOC",
             lid_path |-> "default", rejected |-> FALSE]
       ELSE IF lang_lid # PyNone
       THEN [lang |-> lang_lid,
             counter |-> IF Truthy(lang_lid) THEN "LANG-FROM-LID" ELSE PyNone,
             lid_path |-> IF Truthy(lang_lid) THEN a.lid ELSE "default",
             rejected |-> FALSE]
       ELSE [lang |-> lang_doc, counter |-> "LANG-NONE",
             lid_path |-> "default", rejected |-> TRUE]

\* the language resolution: the language, the counter incremented (None: no
\* counter), lid_path, and whether the record is rejected for having no language
resolve_language(a, lid, docid, json) ==
    LET \* elif self.lang_ident_data: the dict is None exactly when --lid is
        \* not given (__init__), and an empty dict is falsy too
        fromLid == IF Truthy(a.language) THEN FALSE
                   ELSE a.lid # PyNone /\ DOMAIN lid # {}
        lang1 == IF Truthy(a.language) THEN a.language
                 ELSE IF fromLid THEN Get(lid, docid)
                 ELSE PyNone
        counter1 == IF Truthy(a.language) THEN "LANG-FROM-ARG"
                    ELSE IF fromLid /\ Truthy(lang1) THEN "LANG-FROM-LID"
                    ELSE PyNone
        lid_path == IF fromLid /\ Truthy(lang1) THEN a.lid ELSE "default"
    IN IF lang1 = PyNone
       THEN LET lang2 == Get(json, "lg")
            IN IF Truthy(lang2)
               THEN [lang |-> lang2, counter |-> "LANG-FROM-DOC",
                     lid_path |-> lid_path, rejected |-> FALSE]
               ELSE [lang |-> lang2, counter |-> "LANG-NONE",
                     lid_path |-> lid_path, rejected |-> TRUE]
       ELSE [lang |-> lang1, counter |-> counter1,
             lid_path |-> lid_path, rejected |-> FALSE]

\* process_text_with_spacy: the annotation is an external collaborator; the
\* sentence list is empty for an empty text, and otherwise its sentences
\* cover the text handed over
process_text_with_spacy(text, lang) ==
    IF text = <<>> THEN <<>> ELSE << [lg |-> lang, text |-> text] >>

\* {k: v for k, v in title_status.items() if v is not None}
prune(title_status) ==
    [k \in {k \in DOMAIN title_status : title_status[k] # PyNone} |-> title_status[k]]

\* for k, v in title_status.items(): self.stats[f"TITLE-STATUS-{k}"] += 1
count_title_status(st, title_status) ==
    [key \in StatKeys |->
        st[key] + IF \E k \in DOMAIN title_status : TitleStatusKey(k) = key THEN 1 ELSE 0]

\* nlp.max_length = self.args.max_doc_length + 1: the longest text that a
\* pipeline loaded by create_lpu takes
nlp_max_length(a) == a.max_doc_length + 1

\* create_lpu that loads the pipeline and does not store it in the cache
create_lpu_not_cached(lpu, lang) ==
    IF lang \notin lpu /\ lang \in LANG2MODEL
    THEN [language_proc_units |-> lpu, loaded |-> {lang}]
    ELSE [language_proc_units |-> lpu, loaded |-> {}]

\* create_lpu(lang): spacy.load for a language that has a model and no cached
\* pipeline; the cache after the call and the languages loaded by it
create_lpu(lpu, lang) ==
    IF lang \notin lpu /\ lang \in LANG2MODEL
    THEN [language_proc_units |-> lpu \cup {lang}, loaded |-> {lang}]
    ELSE [language_proc_units |-> lpu, loaded |-> {}]

\* the part of process_doc after the language is resolved and supported
admit(a, st, lpu, json, docid, text_len, res) ==
    LET lang == res.lang
        \* if lang not in self.language_proc_units: self.create_lpu(lang)
        lpu1 == IF lang \notin lpu THEN create_lpu(lpu, lang)
                ELSE [language_proc_units |-> lpu, loaded |-> {}]
        full_text == json.ft
        title_text == IF "t" \in DOMAIN json THEN json.t ELSE <<>>
        title_status0 == IF title_text # <<>>
                         THEN analyze_title_in_text(title_text, full_text)
                         ELSE <<>>
        is_unknown == "unknown" \in DOMAIN title_status0 /\ title_status0["unknown"] = PyTrue
        st1 == IF is_unknown THEN Inc(st, "CONTENT-ITEMS-TITLE-unknown") ELSE st
        title_text1 == IF is_unknown THEN <<>> ELSE title_text
        st2 == Inc(st1, "CONTENT-ITEMS-OK")
        title_status == prune(title_status0)
    IN [ doc |-> [ ci_id |-> docid,
                   tsents |-> process_text_with_spacy(title_text1, lang),
                   sents |-> process_text_with_spacy(full_text, lang),
                   model_id |-> lang,
                   lid_path |-> res.lid_path,
                   char_count |-> text_len,
                   min_chars |-> a.min_doc_length,
                   max_chars |-> a.max_doc_length,
                   title_status |-> title_status ],
         stats |-> count_title_status(st2, title_status),
         language_proc_units |-> lpu1.language_proc_units,
         loaded |-> lpu1.loaded,
         locals |-> [docid |-> docid, text_len |-> text_len, lang |-> lang,
                     title_text |-> title_text1, full_text |-> full_text,
                     line |-> 500] ]

\* process_doc(json_obj, timestamp): the returned document (None: rejected), the
\* statistics and the pipeline cache after the call, the languages whose pipeline
\* the call loaded, and the locals at the return.
\* The fields ts and lingproc_git of the document are constants of the run and
\* are left out.
process_doc(a, lid, st, lpu, json) ==
    LET docid == docid_of(json)
        rejected(st1, locals) == [doc |-> PyNone, stats |-> st1,
                                  language_proc_units |-> lpu, loaded |-> {},
                                  locals |-> locals]
    IN IF "ft" \notin DOMAIN json
       THEN rejected(Inc(st, "CONTENT-ITEMS-NO-TEXT"), [docid |-> docid, line |-> 408])
       ELSE
       LET has_title == "t" \in DOMAIN json /\ json.t # <<>>
           st1 == Inc(st, IF has_title THEN "CONTENT-ITEMS-WITH-TITLE"
                                       ELSE "CONTENT-ITEMS-WITHOUT-TITLE")
           text_len == Len(json.ft) + (IF has_title THEN Len(json.t) ELSE 0)
           gate == length_gate(text_len, a.min_doc_length, a.max_doc_length)
       IN IF gate # PyNone
          THEN rejected(Inc(st1, gate),
                        [docid |-> docid, text_len |-> text_len,
                         line |-> CASE gate = "CONTENT-ITEMS-EMPTY" -> 424
                                    [] gate = "CONTENT-ITEMS-SHORT" -> 428
                                    [] gate = "CONTENT-ITEMS-LONG" -> 432])
          ELSE
          LET res == resolve_language(a, lid, docid, json)
              st2 == Inc(st1, res.counter)
          IN IF res.rejected
             THEN rejected(st2, [docid |-> docid, text_len |-> text_len,
                                 lang |-> res.lang, line |-> 456])
             ELSE IF res.lang \notin LANG2MODEL
             THEN rejected(st2, [docid |-> docid, text_len |-> text_len,
                                 lang |-> res.lang, line |-> 460])
             ELSE admit(a, st2, lpu, json, docid, text_len, res)

-----------------------------------------------------------------------------
(* One run: the options, the input records, __init__, the loop of run() and *)
(* the publication of the output file.                                      *)

\* records read in one run, at most
MaxDocs == 2

\* content item identifiers, as their hyphen-delimited segments:
\* "np-1900-i1" and "np-1901-i2"
D1 == <<"np", "1900", "i1">>
D2 == <<"np", "1901", "i2">>

\* fields t (title) and ft (full text) of the input records: the texts that
\* some bounds of ProcessingOptions let through the length gate
DocTexts ==
    { [ft |-> <<"a","b">>],
      [t |-> <<"a","b">>, ft |-> <<"a","b","c">>],
      [t |-> <<"a","b",".",".",".">>, ft |-> <<"a","-","b">>] }

\* ... and the texts that are absent, empty, or longer than these bounds allow
DocTextsRejected ==
    { [t |-> <<"a","b">>],
      [ft |-> <<>>],
      [t |-> <<>>, ft |-> <<>>],
      [t |-> <<"U","N","K","N","O","W","N">>, ft |-> <<"a","b">>],
      [t |-> <<"a","d","v",".","1","p","a","g","e","2">>, ft |-> <<"x">>] }

\* field lg of the input records: absent, empty, supported, unsupported
DocLangs == { <<>>, [lg |-> ""], [lg |-> "fr"], [lg |-> "it"] }

Merge(f, g) == [k \in DOMAIN f \cup DOMAIN g |-> IF k \in DOMAIN f THEN f[k] ELSE g[k]]

\* the texts given to the records of the second identifier
DocTextsOfD2 == { [ft |-> <<"a","b">>], [t |-> <<"a","b">>, ft |-> <<"a","b","c">>] }

\* the records of the input: under the "id" D1 every text, with every language
\* where the text can pass the length gate; two of the texts and every
\* language under the "id" D2; one record that carries its identifier under
\* "ci_id" only, and two that carry "id" together with "ci_id" or "ci_ref"
Records ==
    { Merge([id |-> D1], Merge(x, l)) : x \in DocTexts, l \in DocLangs }
    \cup { Merge([id |-> D1, lg |-> "fr"], x) : x \in DocTextsRejected }
    \cup { Merge([id |-> D2], Merge(x, l)) : x \in DocTextsOfD2, l \in DocLangs }
    \cup { [ci_id |-> D1, ft |-> <<"a","b">>, lg |-> "fr"],
           [id |-> D2, ci_ref |-> D1, ft |-> <<"a","b">>, lg |-> "en"],
           [id |-> D2, ci_ref |-> D2, ci_id |-> D1, ft |-> <<"a","b">>, lg |-> "en"] }

\* the language-identification files: the lines of each
LidFiles ==
    { <<>>,
      << [id |-> D1, lg |-> "fr"], [id |-> D2, lg |-> ""] >>,
      << [id |-> D1], [lg |-> "fr"], [id |-> D1, lg |-> "it"], [id |-> D1] >> }

MinDocLengths == {0, 2, 9}
MaxDocLengths == {2, 8}

\* --s3-output-path
S3_OUTPUT_PATH == "s3://bucket/np-1900.jsonl.bz2"

\* command lines that vary the admission gate and the language resolution and
\* publish nothing
ProcessingOptions ==
    [ language : {PyNone, "de"},
      lid : {PyNone, "lid.jsonl"},
      min_doc_length : MinDocLengths,
      max_doc_length : MaxDocLengths,
      validate : {FALSE},
      s3_output_path : {PyNone},
      s3_output_dry_run : {FALSE},
      quit_if_s3_output_exists : {FALSE},
      keep_timestamp_only : {FALSE} ]

\* command lines that vary the validation and the publication flags, with
\* bounds that let every text with a body through the length gate
PublishingOptions ==
    [ language : {PyNone},
      lid : {PyNone},
      min_doc_length : {2},
      max_doc_length : {11},
      validate : BOOLEAN,
      s3_output_path : {S3_OUTPUT_PATH},
      s3_output_dry_run : BOOLEAN,
      quit_if_s3_output_exists : BOOLEAN,
      keep_timestamp_only : BOOLEAN ]

\* command lines that ask to quit when the output is published already, with a
\* language-identification file to read
StartupOptions ==
    [ language : {PyNone},
      lid : {"lid.jsonl"},
      min_doc_length : {2},
      max_doc_length : {11},
      validate : {FALSE},
      s3_output_path : {S3_OUTPUT_PATH},
      s3_output_dry_run : {FALSE},
      quit_if_s3_output_exists : {TRUE},
      keep_timestamp_only : {FALSE} ]

\* parse_arguments: the dry run unsets --keep-timestamp-only and
\* --quit-if-s3-output-exists
parse_arguments(options) ==
    IF options.s3_output_dry_run
    THEN [options EXCEPT !.keep_timestamp_only = FALSE,
                         !.quit_if_s3_output_exists = FALSE]
    ELSE options

\* an object found at the destination that an earlier run has published
PUBLISHED_BEFORE == "published-before"

\* the bytes of the local output file of the run; an object at the
\* destination holds them after an upload that stored the file
OUTFILE_BYTES == "bytes-of-outfile"

\* an object that differs from the file that was sent
CORRUPTED == "corrupted"

\* s3_file_exists, on the object at the destination
s3_file_exists(object) == object # PyNone

\* no call of an external collaborator has been made
NoCalls ==
    [ read_langident |-> 0, upload_file |-> 0, have_same_md5 |-> 0,
      keep_timestamp_only |-> 0, spacy_load |-> [l \in LANG2MODEL |-> 0] ]

\* the state when main() has parsed the command line: nothing is constructed,
\* read or written yet.  An object may exist at the destination.
Init ==
    /\ arg_title = <<>>
    /\ arg_full_text = <<>>
    /\ ret_analysis = PyNone
    /\ ret_line = 0
    /\ \E options \in ProcessingOptions \cup PublishingOptions \cup StartupOptions :
          /\ argv = options
          /\ args = parse_arguments(options)
          /\ remote \in IF Truthy(options.s3_output_path)
                        THEN {PyNone, PUBLISHED_BEFORE}
                        ELSE {PyNone}
    /\ lang_ident_data = PyNone
    /\ stats = PyNone
    /\ language_proc_units = PyNone
    /\ sink = <<>>
    /\ nread = 0
    /\ nnull = 0
    /\ json_obj = PyNone
    /\ processed_doc = PyNone
    /\ doc_locals = [line |-> 0]
    /\ upload_locals = [line |-> 0]
    /\ exc = PyNone
    /\ pc = "main"
    /\ exit_code = NotExited
    /\ outfile = "absent"
    /\ calls = NoCalls
    /\ publishers = PyNone
    /\ upload_order = <<>>
    /\ validated = PyNone
    /\ aggregate = PyNone

\* the condition of the exit(3) with the test of the dry run inverted
quit_at_startup_if_dry_run(a, object) ==
    /\ a.s3_output_dry_run
    /\ a.quit_if_s3_output_exists
    /\ Truthy(a.s3_output_path)
    /\ s3_file_exists(object)

\* the condition of the exit(3) of __init__
quit_at_startup(a, object) ==
    /\ ~a.s3_output_dry_run
    /\ a.quit_if_s3_output_exists
    /\ Truthy(a.s3_output_path)
    /\ s3_file_exists(object)

\* LinguisticProcessing.__init__: exit(3) when the output is published already
\* and --quit-if-s3-output-exists is given; otherwise the
\* language-identification file is read (with --lid) and the statistics and
\* the pipeline cache start empty
Construct ==
    /\ pc = "main"
    /\ IF quit_at_startup(args, remote)
       THEN /\ pc' = "exited"
            /\ exit_code' = 3
            /\ UNCHANGED <<lang_ident_data, stats, language_proc_units, calls>>
       ELSE /\ pc' = "constructed"
            /\ exit_code' = exit_code
            /\ language_proc_units' = {}
            /\ stats' = EmptyCounter
            /\ IF Truthy(args.lid)
               THEN \E file \in LidFiles :
                       /\ lang_ident_data' = read_langident(file)
                       /\ calls' = [calls EXCEPT !.read_langident = @ + 1]
               ELSE /\ lang_ident_data' = PyNone
                    /\ calls' = calls
    /\ UNCHANGED <<aggregate, validated, argv, args, sink, nread, nnull, json_obj, processed_doc,
                   doc_locals, upload_locals, exc, outfile, remote>>
    /\ UNCHANGED titleVars
    /\ UNCHANGED pubVars

\* an output file that comes to exist only when something is written to it
open_and_write_if_not_empty(file, text) == IF text = "" THEN file ELSE "written"

\* with smart_open.open(outfile, "w") as out: out.write(text): the file exists
\* once it is opened for writing, also when the text written is empty
open_and_write(file, text) == "written"

\* run(), up to its loop: the output file is opened for writing and the empty
\* string is written to it
OpenOutput ==
    /\ pc = "constructed"
    /\ pc' = "reading"
    /\ outfile' = open_and_write(outfile, "")
    /\ sink' = <<>>
    /\ UNCHANGED <<aggregate, validated, argv, args, lang_ident_data, stats, language_proc_units,
                   nread, nnull, json_obj, processed_doc, doc_locals, upload_locals,
                   exc, exit_code, remote, calls>>
    /\ UNCHANGED titleVars
    /\ UNCHANGED pubVars

\* the languages in loaded are loaded with spacy.load once more
count_loads(c, loaded) ==
    [c EXCEPT !.spacy_load = [l \in LANG2MODEL |-> @[l] + IF l \in loaded THEN 1 ELSE 0]]

\* the turn of the loop with output_doc moved before the validation
after_process_doc_output_first(a, line, valid) ==
    [ validated |-> IF a.validate /\ line = 500 THEN PyBool(valid) ELSE PyNone,
      exits |-> a.validate /\ line = 500 /\ ~valid,
      writes |-> line = 500 ]

\* the turn of the loop with output_doc called for whatever process_doc returned
after_process_doc_output_always(a, line, valid) ==
    [ validated |-> IF a.validate /\ line = 500 THEN PyBool(valid) ELSE PyNone,
      exits |-> a.validate /\ line = 500 /\ ~valid,
      writes |-> ~(a.validate /\ line = 500 /\ ~valid) ]

\* the turn of the loop after process_doc returned at line: with --validate an
\* admitted document is validated and sys.exit(1) follows if validate_document
\* returns False; otherwise an admitted document is written
after_process_doc(a, line, valid) ==
    [ validated |-> IF a.validate /\ line = 500 THEN PyBool(valid) ELSE PyNone,
      exits |-> a.validate /\ line = 500 /\ ~valid,
      writes |-> line = 500 /\ ~(a.validate /\ ~valid) ]

\* one turn of the loop for a line that holds a JSON object: process_doc, with
\* --validate validate_document and sys.exit(1) if it returns False, then
\* output_doc if the record was admitted.  A record without "id" raises
\* KeyError in process_doc, which nothing catches.  Whether a document conforms
\* to the schema is decided by the schema, which is fetched from outside.
ProcessRecord ==
    /\ pc = "reading"
    /\ nread < MaxDocs
    /\ \E json \in Records :
          /\ json_obj' = json
          /\ nread' = nread + 1
          /\ nnull' = nnull
          /\ IF raises_KeyError(json)
             THEN /\ pc' = "aborted"
                  /\ exc' = "KeyError"
                  /\ doc_locals' = [line |-> 398]
                  /\ validated' = PyNone
                  /\ UNCHANGED <<stats, language_proc_units, sink, processed_doc,
                                 exit_code, calls>>
             ELSE LET r == process_doc(args, lang_ident_data, stats,
                                       language_proc_units, json)
                  IN /\ stats' = r.stats
                     /\ language_proc_units' = r.language_proc_units
                     /\ calls' = count_loads(calls, r.loaded)
                     /\ processed_doc' = r.doc
                     /\ doc_locals' = r.locals
                     /\ exc' = exc
                     /\ \E valid \in IF args.validate /\ r.locals.line = 500
                                     THEN BOOLEAN ELSE {TRUE} :
                           LET t == after_process_doc(args, r.locals.line, valid)
                           IN /\ validated' = t.validated
                              /\ sink' = IF t.writes THEN Append(sink, r.doc) ELSE sink
                              /\ pc' = IF t.exits THEN "exited" ELSE pc
                              /\ exit_code' = IF t.exits THEN 1 ELSE exit_code
    /\ UNCHANGED <<aggregate, argv, args, lang_ident_data, upload_locals, outfile,
                   remote>>
    /\ UNCHANGED titleVars
    /\ UNCHANGED pubVars

\* one turn of the loop for a line that holds the JSON value null
ReadNull ==
    /\ pc = "reading"
    /\ nread < MaxDocs
    /\ json_obj' = PyNone
    /\ nread' = nread + 1
    /\ nnull' = nnull + 1
    /\ doc_locals' = [line |-> 526]
    /\ UNCHANGED <<aggregate, validated, argv, args, lang_ident_data, stats, language_proc_units, sink,
                   processed_doc, upload_locals, exc, pc, exit_code, outfile,
                   remote, calls>>
    /\ UNCHANGED titleVars
    /\ UNCHANGED pubVars

\* the input is exhausted: the file is closed and the totals are logged.  The
\* log line reads the loop variable i, which is unbound when no line was read.
EndOfInput ==
    /\ pc = "reading"
    /\ IF nread = 0
       THEN pc' = "aborted" /\ exc' = "UnboundLocalError"
       ELSE pc' = "done" /\ exc' = PyNone
    /\ UNCHANGED <<aggregate, validated, argv, args, lang_ident_data, stats, language_proc_units, sink, nread,
                   nnull, json_obj, processed_doc, doc_locals, upload_locals,
                   exit_code, outfile, remote, calls>>
    /\ UNCHANGED titleVars
    /\ UNCHANGED pubVars

\* what S3_CLIENT.upload_file can do: store the file, store something that
\* differs from it, or raise
UploadOutcomes == {"stored", "corrupted", "raised"}

\* an upload that leaves an object alone that is at the destination already
upload_file_if_absent(object, local_file, outcome) ==
    IF object # PyNone THEN object
    ELSE IF outcome = "stored" THEN local_file
    ELSE IF outcome = "corrupted" THEN CORRUPTED
    ELSE object

\* S3_CLIENT.upload_file(local_file_path, bucket, key): the object at the
\* destination after the call; what was there is overwritten
upload_file(object, local_file, outcome) ==
    IF outcome = "stored" THEN local_file
    ELSE IF outcome = "corrupted" THEN CORRUPTED
    ELSE object

\* have_same_md5(local_file_path, s3_path, client)
have_same_md5(local_file, object) == object = local_file

\* upload_file_to_s3 without the test of the destination: the file is uploaded
\* over an object that exists
upload_file_to_s3_overwriting(object, local_file, outcome) ==
    LET stored == upload_file(object, local_file, outcome)
    IN IF outcome = "raised"
       THEN [remote |-> stored, upload_file |-> 1, have_same_md5 |-> 0,
             raised |-> PyNone, locals |-> [line |-> 602, error |-> "Exception"]]
       ELSE IF have_same_md5(local_file, stored)
       THEN [remote |-> stored, upload_file |-> 1, have_same_md5 |-> 1,
             raised |-> PyNone, locals |-> [line |-> 586]]
       ELSE [remote |-> stored, upload_file |-> 1, have_same_md5 |-> 1,
             raised |-> PyNone, locals |-> [line |-> 602, error |-> "ValueError"]]

\* upload_file_to_s3(local_file_path, s3_path), with no other writer of the
\* destination at work: the object at the destination after the call, the
\* calls made, the exception that leaves the function (None: it returns), and
\* the line reached last.  The ValueError of a checksum mismatch is raised
\* inside the try block and caught by "except Exception".  run() calls the
\* function of this name and protocol that it imports from s3_to_local_stamps,
\* with the client as first argument.
upload_file_to_s3(object, local_file, outcome) ==
    IF s3_file_exists(object)
    THEN [remote |-> object, upload_file |-> 0, have_same_md5 |-> 0,
          raised |-> PyNone, locals |-> [line |-> 574]]
    ELSE LET stored == upload_file(object, local_file, outcome)
         IN IF outcome = "raised"
            THEN [remote |-> stored, upload_file |-> 1, have_same_md5 |-> 0,
                  raised |-> PyNone, locals |-> [line |-> 602, error |-> "Exception"]]
            ELSE IF have_same_md5(local_file, stored)
            THEN [remote |-> stored, upload_file |-> 1, have_same_md5 |-> 1,
                  raised |-> PyNone, locals |-> [line |-> 586]]
            ELSE [remote |-> stored, upload_file |-> 1, have_same_md5 |-> 1,
                  raised |-> PyNone, locals |-> [line |-> 602, error |-> "ValueError"]]

\* the dry run publishes whenever a destination is given
should_upload_ignoring_dry_run(a) == Truthy(a.s3_output_path)

\* if not self.args.s3_output_dry_run and s3_outfile
should_upload(a) == ~a.s3_output_dry_run /\ Truthy(a.s3_output_path)

\* the end of run() and of main(): the output file is uploaded when a
\* destination is given and the run is not dry, then with
\* --keep-timestamp-only the local file is cut down to its timestamp, and the
\* process exits with 0
Publish ==
    /\ pc = "done"
    /\ IF should_upload(args)
       THEN \E outcome \in UploadOutcomes :
               LET u == upload_file_to_s3(remote, OUTFILE_BYTES, outcome)
               IN /\ remote' = u.remote
                  /\ upload_locals' = u.locals
                  /\ outfile' = IF args.keep_timestamp_only
                                THEN "timestamp-only" ELSE outfile
                  /\ calls' = [calls EXCEPT
                                 !.upload_file = @ + u.upload_file,
                                 !.have_same_md5 = @ + u.have_same_md5,
                                 !.keep_timestamp_only =
                                     @ + IF args.keep_timestamp_only THEN 1 ELSE 0]
       ELSE UNCHANGED <<remote, upload_locals, outfile, calls>>
    /\ pc' = "exited"
    /\ exit_code' = 0
    /\ UNCHANGED <<aggregate, validated, argv, args, lang_ident_data, stats, language_proc_units, sink, nread,
                   nnull, json_obj, processed_doc, doc_locals, exc>>
    /\ UNCHANGED titleVars
    /\ UNCHANGED pubVars

-----------------------------------------------------------------------------
(* The corpus aggregator (lib/aggregate_title_status.py), run on the file    *)
(* that a run has published.                                                *)

\* the properties counted for every file
PROPS == {"has_text", "has_title", "exact_prefix", "title_longer", "ellipsis",
          "alnum_infix", "alnum_prefix", "unknown", "advertisement"}

\* f"{key}={value}"
CounterKey(key, value) == key \o "=" \o value

\* init_counter(): the keys "<prop>=True", each with count 0
init_counter == [k \in {CounterKey(prop, PyTrue) : prop \in PROPS} |-> 0]

\* get_length_of_json_sents(sents): sents[-1]["tokens"][-1] raises IndexError
\* on an empty list; the last token of a sentence ends where its text ends
get_length_of_json_sents(sents) ==
    IF sents = <<>>
    THEN [raised |-> "IndexError", value |-> 0]
    ELSE [raised |-> PyNone, value |-> Len(sents[Len(sents)].text)]

\* the dict status of one record: has_text, has_title, and the flags of the
\* persisted title_status
status_of(record) ==
    Merge(record.title_status,
          [ has_text |-> PyBool(record.char_count > 0),
            has_title |-> PyBool(record.tsents # <<>>) ])

\* the exception that the turn of the loop for one record raises (None: none):
\* the unpacking of the first two segments of ci_id, then the length of the
\* title sentences when title_longer is true
raised_by(record) ==
    IF Len(record.ci_id) < 2 THEN "ValueError"
    ELSE IF /\ "title_longer" \in DOMAIN status_of(record)
            /\ status_of(record)["title_longer"] = PyTrue
            /\ get_length_of_json_sents(record.tsents).raised # PyNone
    THEN get_length_of_json_sents(record.tsents).raised
    ELSE PyNone

\* the counter after all records: the keys of init_counter and every
\* "<key>=<value>" met, each with the number of records that have it
count_status(records) ==
    LET met == UNION { {CounterKey(k, status_of(records[i])[k]) :
                           k \in DOMAIN status_of(records[i])} : i \in 1..Len(records) }
        has(i, key) == \E k \in DOMAIN status_of(records[i]) :
                          CounterKey(k, status_of(records[i])[k]) = key
    IN [key \in DOMAIN init_counter \cup met |->
           Cardinality({i \in 1..Len(records) : has(i, key)})]

\* read_title_status_from_s3(bucket, key), on the records of the file: the
\* exception raised (None: none) and the dict returned, {} for a file without
\* records.  The dict under "year" holds year and newspaper of the last record
\* and the counter's items (result.update(title_status)).
read_title_status_from_s3(records) ==
    IF \E i \in 1..Len(records) : raised_by(records[i]) # PyNone
    THEN [raised |-> raised_by(records[CHOOSE i \in 1..Len(records) :
                                  /\ raised_by(records[i]) # PyNone
                                  /\ \A j \in 1..(i - 1) : raised_by(records[j]) = PyNone]),
          result |-> <<>>]
    ELSE IF records = <<>>
    THEN [raised |-> PyNone, result |-> <<>>]
    ELSE LET last == records[Len(records)]
         IN [raised |-> PyNone,
             result |-> [year |-> Merge([year |-> last.ci_id[2],
                                         newspaper |-> last.ci_id[1]],
                                        count_status(records))]]

\* aggregate_title_status for the one file: what it prints, one JSON object
\* unless the dict is empty, and the exception that ends it
aggregate_title_status(records) ==
    LET title_status == read_title_status_from_s3(records)
    IN [ raised |-> title_status.raised,
         printed |-> IF title_status.raised = PyNone /\ title_status.result # <<>>
                     THEN <<title_status.result>> ELSE <<>> ]

\* the aggregator is run over the destination after the run has published its
\* output file there
Aggregate ==
    /\ pc = "exited"
    /\ exit_code = 0
    /\ remote = OUTFILE_BYTES
    /\ pc' = "aggregated"
    /\ aggregate' = aggregate_title_status(sink)
    /\ UNCHANGED <<validated, argv, args, lang_ident_data, stats, language_proc_units,
                   sink, nread, nnull, json_obj, processed_doc, doc_locals,
                   upload_locals, exc, exit_code, outfile, remote, calls>>
    /\ UNCHANGED titleVars
    /\ UNCHANGED pubVars

Next ==
    \/ Construct \/ OpenOutput \/ ProcessRecord \/ ReadNull \/ EndOfInput \/ Publish
    \/ Aggregate

Spec == Init /\ [][Next]_vars

-----------------------------------------------------------------------------
(* Two run instances that publish to one destination.  Each has written its *)
(* output file and stands at the call of upload_file_to_s3; the instances   *)
(* share nothing but the destination, and the steps of their calls          *)
(* interleave: the test of the destination (line 570), the upload (line     *)
(* 579) and the comparison of the checksums (line 585).                     *)

Runs == {"run1", "run2"}

\* the bytes of the output file of another run
OTHER_OUTFILE_BYTES == "bytes-of-other-outfile"

InitPublishers ==
    /\ arg_title = <<>>
    /\ arg_full_text = <<>>
    /\ ret_analysis = PyNone
    /\ ret_line = 0
    /\ args = PyNone
    /\ lang_ident_data = PyNone
    /\ stats = PyNone
    /\ language_proc_units = PyNone
    /\ sink = <<>>
    /\ nread = 0
    /\ nnull = 0
    /\ json_obj = PyNone
    /\ processed_doc = PyNone
    /\ doc_locals = PyNone
    /\ upload_locals = PyNone
    /\ exc = PyNone
    /\ pc = "publishers"
    /\ exit_code = NotExited
    /\ outfile = "written"
    /\ calls = PyNone
    /\ remote \in {PyNone, PUBLISHED_BEFORE}
    /\ \E other \in {OUTFILE_BYTES, OTHER_OUTFILE_BYTES} :
          publishers =
              [r \in Runs |->
                  [ pc |-> "test",
                    local_file |-> IF r = "run1" THEN OUTFILE_BYTES ELSE other,
                    sent |-> PyNone,
                    uploads_at_test |-> 0,
                    line |-> 0,
                    error |-> PyNone ]]
    /\ upload_order = <<>>
    /\ validated = PyNone
    /\ argv = PyNone
    /\ aggregate = PyNone

\* if s3_file_exists(self.S3_CLIENT, bucket, key): ... return
TestDestination(r) ==
    /\ pc = "publishers"
    /\ publishers[r].pc = "test"
    /\ publishers' =
          [publishers EXCEPT
             ![r].pc = IF s3_file_exists(remote) THEN "returned" ELSE "upload",
             ![r].line = IF s3_file_exists(remote) THEN 574 ELSE 578,
             ![r].uploads_at_test = Len(upload_order)]
    /\ UNCHANGED <<remote, upload_order>>
    /\ UNCHANGED <<aggregate, validated, argv, args, lang_ident_data, stats, language_proc_units, sink, nread,
                   nnull, json_obj, processed_doc, doc_locals, upload_locals, exc,
                   pc, exit_code, outfile, calls>>
    /\ UNCHANGED titleVars

\* self.S3_CLIENT.upload_file(local_file_path, bucket, key); an exception it
\* raises is caught and logged, and the function returns
Upload(r) ==
    /\ pc = "publishers"
    /\ publishers[r].pc = "upload"
    /\ \E outcome \in UploadOutcomes :
          /\ remote' = upload_file(remote, publishers[r].local_file, outcome)
          /\ IF outcome = "raised"
             THEN /\ publishers' = [publishers EXCEPT ![r].pc = "returned",
                                                      ![r].line = 602,
                                                      ![r].error = "Exception"]
                  /\ upload_order' = upload_order
             ELSE /\ publishers' =
                        [publishers EXCEPT
                           ![r].pc = "verify",
                           ![r].line = 582,
                           ![r].sent = IF outcome = "stored"
                                       THEN publishers[r].local_file ELSE CORRUPTED]
                  /\ upload_order' = Append(upload_order, r)
    /\ UNCHANGED <<aggregate, validated, argv, args, lang_ident_data, stats, language_proc_units, sink, nread,
                   nnull, json_obj, processed_doc, doc_locals, upload_locals, exc,
                   pc, exit_code, outfile, calls>>
    /\ UNCHANGED titleVars

\* if have_same_md5(...): ... else: raise ValueError(...), which "except
\* Exception" catches and logs
Verify(r) ==
    /\ pc = "publishers"
    /\ publishers[r].pc = "verify"
    /\ publishers' =
          [publishers EXCEPT
             ![r].pc = "returned",
             ![r].line = IF have_same_md5(publishers[r].local_file, remote)
                         THEN 586 ELSE 602,
             ![r].error = IF have_same_md5(publishers[r].local_file, remote)
                          THEN PyNone ELSE "ValueError"]
    /\ UNCHANGED <<remote, upload_order>>
    /\ UNCHANGED <<aggregate, validated, argv, args, lang_ident_data, stats, language_proc_units, sink, nread,
                   nnull, json_obj, processed_doc, doc_locals, upload_locals, exc,
                   pc, exit_code, outfile, calls>>
    /\ UNCHANGED titleVars

NextPublishers == \E r \in Runs : TestDestination(r) \/ Upload(r) \/ Verify(r)

SpecPublishers == InitPublishers /\ [][NextPublishers]_vars

-----------------------------------------------------------------------------
(* Properties of one run (specification Spec)                               *)

\* the lines of process_doc's returns that lie after the text was measured
LengthGatedLines == {424, 428, 432, 456, 460, 500}
\* ... and after the language resolution was entered
ResolutionLines == {456, 460, 500}

LengthCounters == {"CONTENT-ITEMS-EMPTY", "CONTENT-ITEMS-SHORT", "CONTENT-ITEMS-LONG"}

\* the records attributed to a category: the rejection counters and the
\* admitted counter.  No counter exists for an unsupported language.
AttributedTotal ==
    stats["CONTENT-ITEMS-NO-TEXT"] + stats["CONTENT-ITEMS-EMPTY"]
    + stats["CONTENT-ITEMS-SHORT"] + stats["CONTENT-ITEMS-LONG"]
    + stats["LANG-NONE"] + stats["CONTENT-ITEMS-OK"]

\* C1: at the end of a run, the rejection counters plus CONTENT-ITEMS-OK add up
\* to the number of records read (the lines that held a record, not null).
C1_TotalsEqualRecordsRead ==
    pc = "done" => AttributedTotal = nread - nnull

\* the lookup table has an entry for the identifier of the record processed
\* last (a line of the file without "lg", or with null, gives none)
C2_TableHasEntry ==
    /\ args.lid # PyNone
    /\ doc_locals.docid \in DOMAIN lang_ident_data
    /\ lang_ident_data[doc_locals.docid] # PyNone

\* the language the precedence of C2 selects for the record processed last:
\* the override if supplied, else the lookup table's entry for the identifier
\* if it has one, else the record's own lg; None when none yields a language
C2_ExpectedLang ==
    IF Truthy(args.language) THEN args.language
    ELSE IF C2_TableHasEntry THEN lang_ident_data[doc_locals.docid]
    ELSE IF Truthy(Get(json_obj, "lg")) THEN json_obj.lg
    ELSE PyNone

TextLenOf(json) == Len(json.ft) + (IF "t" \in DOMAIN json THEN Len(json.t) ELSE 0)

\* this step rejected the record under the length counter key, and under no other
RejectedOnLengthAs(key) ==
    /\ stats'[key] = stats[key] + 1
    /\ \A k \in LengthCounters \ {key} : stats'[k] = stats[k]
    /\ doc_locals'.line \in {424, 428, 432}

\* this step rejected nothing on length
NotRejectedOnLength ==
    /\ \A k \in LengthCounters : stats'[k] = stats[k]
    /\ doc_locals'.line \in ResolutionLines

\* this step handed a record with a text field to process_doc
ProcessedWithText == nread' = nread + 1 /\ doc_locals'.line \in LengthGatedLines

\* C3 as stated: textLen = 0 is rejected as empty, 0 < textLen < min as short,
\* textLen > max as long, each under its own counter only, and a textLen equal
\* to min or to max is never rejected on length.
C3_LengthGateAsStated ==
    [][ ProcessedWithText =>
          LET n == TextLenOf(json_obj')
              min == args.min_doc_length
              max == args.max_doc_length
          IN /\ n = 0 => RejectedOnLengthAs("CONTENT-ITEMS-EMPTY")
             /\ (0 < n /\ n < min) => RejectedOnLengthAs("CONTENT-ITEMS-SHORT")
             /\ n > max => RejectedOnLengthAs("CONTENT-ITEMS-LONG")
             /\ (n = min \/ n = max) => NotRejectedOnLength ]_vars

\* C3 (amended): the three tests apply in the order empty, short, long and the
\* first that matches rejects the record under its own counter only; with
\* 0 < min <= max a textLen equal to min or to max is never rejected on length.
C3_LengthGate ==
    [][ ProcessedWithText =>
          LET n == TextLenOf(json_obj')
              min == args.min_doc_length
              max == args.max_doc_length
          IN /\ doc_locals'.text_len = n
             /\ n = 0 => RejectedOnLengthAs("CONTENT-ITEMS-EMPTY")
             /\ (0 < n /\ n < min) => RejectedOnLengthAs("CONTENT-ITEMS-SHORT")
             /\ (0 < n /\ n >= min /\ n > max) => RejectedOnLengthAs("CONTENT-ITEMS-LONG")
             /\ (0 < n /\ n >= min /\ n <= max) => NotRejectedOnLength
             /\ (0 < min /\ min <= max /\ (n = min \/ n = max)) => NotRejectedOnLength ]_vars

\* C3 witness: under bounds with 0 < min < max, a record whose textLen equals
\* max was admitted after another had been rejected on length
C3_Witness ==
    /\ 0 < args.min_doc_length
    /\ args.min_doc_length < args.max_doc_length
    /\ doc_locals.line = 500
    /\ doc_locals.text_len = args.max_doc_length
    /\ stats["CONTENT-ITEMS-SHORT"] + stats["CONTENT-ITEMS-LONG"]
       + stats["CONTENT-ITEMS-EMPTY"] > 0

\* C4: every persisted title_status that analyze_title_in_text produced holds
\* exact_prefix as a boolean, and holds each other flag as true or not at all.
C4_OtherFlagsTrueOrAbsent ==
    \A i \in 1..Len(sink) :
        LET ts == sink[i].title_status
        IN DOMAIN ts # {} =>
              /\ "exact_prefix" \in DOMAIN ts
              /\ ts["exact_prefix"] \in {PyTrue, PyFalse}
              /\ \A k \in DOMAIN ts \ {"exact_prefix"} : ts[k] = PyTrue

-----------------------------------------------------------------------------
(* Properties of analyze_title_in_text (specification SpecTitle)            *)

\* the title is neither a placeholder nor an advertisement match
OrdinaryTitle == ~is_placeholder(arg_title) /\ ~re_match_ADVERTISEMENT(arg_title)

\* C5: for a placeholder title the result has unknown true and no other flag
\* set, whatever the full text.
C5_PlaceholderSetsOnlyUnknown ==
    (Returned /\ is_placeholder(arg_title)) =>
        /\ ret_analysis["unknown"] = PyTrue
        /\ \A k \in FLAGS \ {"unknown"} : ret_analysis[k] # PyTrue

TerminalFlags == {"unknown", "advertisement", "exact_prefix", "title_longer",
                  "alnum_prefix", "alnum_infix"}

\* C6: at most one of unknown, advertisement, exact_prefix, title_longer,
\* alnum_prefix, alnum_infix is true in a result.
C6_AtMostOneTerminalFlag ==
    Returned => Cardinality({k \in TerminalFlags : ret_analysis[k] = PyTrue}) <= 1

\* C7: a result with title_longer true has neither alnum_prefix nor alnum_infix.
C7_TitleLongerExcludesAlnum ==
    (Returned /\ ret_analysis["title_longer"] = PyTrue) =>
        /\ ret_analysis["alnum_prefix"] = PyNone
        /\ ret_analysis["alnum_infix"] = PyNone

\* C8: for an ordinary title that the full text starts with verbatim, the
\* result has exact_prefix true and ellipsis, alnum_prefix, alnum_infix absent,
\* and the function returns at the first exact-prefix check.
C8_ExactPrefixFirst ==
    (Returned /\ OrdinaryTitle /\ startswith(arg_full_text, arg_title)) =>
        /\ ret_analysis["exact_prefix"] = PyTrue
        /\ ret_analysis["ellipsis"] = PyNone
        /\ ret_analysis["alnum_prefix"] = PyNone
        /\ ret_analysis["alnum_infix"] = PyNone
        /\ ret_line = 144

\* C8 witness: a title ending in "..." that the full text starts with verbatim,
\* and whose stripped form is a prefix too
C8_Witness ==
    /\ Returned
    /\ OrdinaryTitle
    /\ Len(arg_title) > 3
    /\ endswith(arg_title, ELLIPSIS)
    /\ startswith(arg_full_text, arg_title)
    /\ Len(arg_full_text) > Len(arg_title)

\* a space that is neither the first nor the last character
HasInteriorSpace(t) == \E i \in 2..(Len(t) - 1) : t[i] = " "

\* C9 as stated: alnum_infix is set only for a title with an interior space and
\* of length at least 20.
C9_InfixNeedsInteriorSpace ==
    (Returned /\ ret_analysis["alnum_infix"] = PyTrue) =>
        /\ HasInteriorSpace(arg_title)
        /\ Len(arg_title) >= 20

\* C9 (amended): alnum_infix is set only for a title that contains a space,
\* at any position, and has length at least 20.
C9_InfixNeedsSpaceAndLength ==
    (Returned /\ ret_analysis["alnum_infix"] = PyTrue) =>
        /\ " " \in Range(arg_title)
        /\ Len(arg_title) >= 20

\* C9 witness: alnum_infix set for a title of exactly 20 characters
C9_Witness ==
    /\ Returned
    /\ ret_analysis["alnum_infix"] = PyTrue
    /\ Len(arg_title) = 20

\* C10: for an ordinary title that ends with "..." and is no verbatim prefix of
\* the full text, ellipsis is true; and if the full text starts with the title
\* less its last three characters, exact_prefix is true and the function
\* returns there, before the length and alphanumeric rules.
C10_EllipsisRetry ==
    (/\ Returned
     /\ OrdinaryTitle
     /\ endswith(arg_title, ELLIPSIS)
     /\ ~startswith(arg_full_text, arg_title)) =>
        /\ ret_analysis["ellipsis"] = PyTrue
        /\ startswith(arg_full_text, drop_last3(arg_title)) =>
              /\ ret_analysis["exact_prefix"] = PyTrue
              /\ ret_analysis["alnum_prefix"] = PyNone
              /\ ret_analysis["alnum_infix"] = PyNone
              /\ ret_line = 154

\* C10 witness: the stripped title is a prefix of the full text, the title is not
C10_Witness ==
    /\ Returned
    /\ OrdinaryTitle
    /\ endswith(arg_title, ELLIPSIS)
    /\ Len(arg_title) > 3
    /\ ~startswith(arg_full_text, arg_title)
    /\ startswith(arg_full_text, drop_last3(arg_title))
    /\ ret_analysis["ellipsis"] = PyTrue
    /\ ret_analysis["exact_prefix"] = PyTrue

\* the identifier that the precedence ci_id, ci_ref, id selects in a record
C17_ExpectedId(json) ==
    IF "ci_id" \in DOMAIN json THEN json.ci_id
    ELSE IF "ci_ref" \in DOMAIN json THEN json.ci_ref
    ELSE json.id

\* C17: a record with an identifier under "id" or under "ci_id" does not abort
\* the run in process_doc; the identifier of the record is the first of ci_id,
\* ci_ref, id, and it is the one looked up in the language-identification
\* table and written as ci_id of the output.
C17_IdentifierAccepted ==
    [][ (/\ nread' = nread + 1
         /\ doc_locals'.line # 526
         /\ ("id" \in DOMAIN json_obj' \/ "ci_id" \in DOMAIN json_obj')) =>
          LET docid == C17_ExpectedId(json_obj')
          IN /\ exc' = PyNone
             /\ pc' # "aborted"
             /\ doc_locals'.docid = docid
             /\ doc_locals'.line = 500 => processed_doc'.ci_id = docid
             /\ (/\ doc_locals'.line \in ResolutionLines
                 /\ ~Truthy(args.language)
                 /\ args.lid # PyNone
                 /\ docid \in DOMAIN lang_ident_data
                 /\ lang_ident_data[docid] # PyNone) =>
                   doc_locals'.lang = lang_ident_data[docid] ]_vars

LangCounters == {"LANG-FROM-ARG", "LANG-FROM-LID", "LANG-FROM-DOC", "LANG-NONE"}

\* the counter of the path that supplied the language of the record processed
\* last: the override, else the lookup table if it has an entry for the
\* identifier, else the record's own lg; LANG-NONE when none supplied one
C18_ExpectedCounter ==
    IF Truthy(args.language) THEN "LANG-FROM-ARG"
    ELSE IF C2_TableHasEntry THEN "LANG-FROM-LID"
    ELSE IF Truthy(Get(json_obj, "lg")) THEN "LANG-FROM-DOC"
    ELSE "LANG-NONE"

\* C18: for a record that passed the length gate, exactly one of the counters
\* LANG-FROM-ARG, LANG-FROM-LID, LANG-FROM-DOC, LANG-NONE goes up, by 1, and it
\* is the one of the path that supplied the language.
C18_OneLanguageCounter ==
    [][ (nread' = nread + 1 /\ doc_locals'.line \in ResolutionLines) =>
          \A k \in LangCounters :
              stats'[k] = stats[k] + IF k = C18_ExpectedCounter' THEN 1 ELSE 0 ]_vars

\* __init__ has run to its end
Constructed == pc # "main" /\ exit_code # 3

\* C19: in one run the pipeline of a language is loaded at most once: it is
\* loaded when the first record of the language is admitted, kept in the
\* cache, and every admitted record finds the pipeline of its language there.
C19_LoadedAtMostOnce ==
    Constructed =>
        /\ \A l \in LANG2MODEL :
              calls.spacy_load[l] = IF l \in language_proc_units THEN 1 ELSE 0
        /\ \A i \in 1..Len(sink) : sink[i].model_id \in language_proc_units

\* C19 witness: two records of one language were admitted one after the other
C19_Witness ==
    /\ Constructed
    /\ Len(sink) = 2
    /\ sink[1].model_id = sink[2].model_id
    /\ calls.spacy_load[sink[1].model_id] = 1

-----------------------------------------------------------------------------
(* Properties of the start-up and the publication (specification Spec)      *)

\* the run was started with a destination, with --quit-if-s3-output-exists and
\* without --s3-output-dry-run, and the destination held an object then
C11_PublishedAtStartup ==
    /\ Truthy(args.s3_output_path)
    /\ args.quit_if_s3_output_exists
    /\ ~args.s3_output_dry_run
    /\ remote = PUBLISHED_BEFORE

\* C11: a run started with a destination that exists already, with
\* skip-if-published and without dry-run, goes from its start to exit code 3 and
\* nowhere else: no record and no language-identification file is read,
\* nothing is written to the sink, nothing is uploaded.
C11_QuitBeforeReading ==
    (C11_PublishedAtStartup /\ pc # "main") =>
        /\ pc = "exited"
        /\ exit_code = 3
        /\ nread = 0
        /\ calls.read_langident = 0
        /\ sink = <<>>
        /\ outfile = "absent"
        /\ calls.upload_file = 0
        /\ remote = PUBLISHED_BEFORE

\* C11 witness: the run has exited with 3, and it was given a
\* language-identification file
C11_Witness ==
    /\ C11_PublishedAtStartup
    /\ Truthy(args.lid)
    /\ pc = "exited"
    /\ exit_code = 3

\* the checksum comparison after the upload found a mismatch
MismatchFound ==
    /\ upload_locals.line = 602
    /\ upload_locals.error = "ValueError"

\* C12: a run whose checksum comparison after the upload found a mismatch ends
\* with exit code 1, never with the exit code of success.
C12_MismatchIsFatal ==
    (MismatchFound /\ pc = "exited") => exit_code = 1

\* this step is the upload step of a run that publishes
UploadStep == pc = "done" /\ pc' = "exited" /\ should_upload(args)

\* C13: at the upload step, a destination that exists is left as it is: no
\* upload, no checksum comparison, no error; the file is uploaded, and the
\* checksums are compared after an upload only, when the destination did not
\* exist at the test.
C13_ExistingDestinationSkipped ==
    [][ UploadStep =>
          /\ s3_file_exists(remote) =>
                /\ remote' = remote
                /\ calls'.upload_file = calls.upload_file
                /\ calls'.have_same_md5 = calls.have_same_md5
                /\ upload_locals'.line = 574
                /\ exc' = PyNone
                /\ exit_code' = 0
          /\ calls'.upload_file # calls.upload_file =>
                /\ ~s3_file_exists(remote)
                /\ calls'.upload_file = calls.upload_file + 1
          /\ calls'.have_same_md5 # calls.have_same_md5 =>
                /\ calls'.upload_file = calls.upload_file + 1
                /\ calls'.have_same_md5 = calls.have_same_md5 + 1 ]_vars

\* C13 witness: the run reached its upload step with an object at the
\* destination, and returned from the upload at the line of the skip
C13_Witness ==
    /\ pc = "exited"
    /\ exit_code = 0
    /\ should_upload(args)
    /\ remote = PUBLISHED_BEFORE
    /\ upload_locals.line = 574
    /\ Len(sink) > 0

\* C15: with --validate, every admitted record is validated, and a record that
\* fails ends the run in that turn with exit code 1: the record is not
\* written, nothing is uploaded or cut down to a timestamp, and no step
\* follows (no later record is read).
C15_ValidationFailureExits ==
    [][ /\ validated # PyFalse
        /\ (nread' = nread + 1 /\ doc_locals'.line = 500 /\ args.validate) =>
              validated' \in {PyTrue, PyFalse}
        /\ validated' = PyFalse =>
              /\ args.validate
              /\ doc_locals'.line = 500
              /\ sink' = sink
              /\ pc' = "exited"
              /\ exit_code' = 1
              /\ remote' = remote
              /\ outfile' = "written"
              /\ calls'.upload_file = 0
              /\ calls'.keep_timestamp_only = 0 ]_vars

\* C15 witness: a run that publishes and keeps the timestamp only has written
\* one record and exited with 1 on the next, which the gate had admitted
C15_Witness ==
    /\ validated = PyFalse
    /\ should_upload(args)
    /\ args.keep_timestamp_only
    /\ remote = PyNone
    /\ Len(sink) = 1
    /\ stats["CONTENT-ITEMS-OK"] = 2
    /\ exit_code = 1

\* C16: a run with --s3-output-dry-run, whatever the other options, uploads
\* nothing, does not compare checksums, does not cut the output file down to a
\* timestamp, leaves the destination as it was, and does not exit with 3.
C16_DryRunPublishesNothing ==
    argv.s3_output_dry_run =>
        /\ calls.upload_file = 0
        /\ calls.have_same_md5 = 0
        /\ calls.keep_timestamp_only = 0
        /\ outfile # "timestamp-only"
        /\ remote \in {PyNone, PUBLISHED_BEFORE}
        /\ exit_code # 3

\* C16 witness: a dry run given a destination that exists, with
\* --quit-if-s3-output-exists and --keep-timestamp-only, has written a record
\* and exited with 0
C16_Witness ==
    /\ argv.s3_output_dry_run
    /\ argv.quit_if_s3_output_exists
    /\ argv.keep_timestamp_only
    /\ Truthy(argv.s3_output_path)
    /\ remote = PUBLISHED_BEFORE
    /\ Len(sink) > 0
    /\ pc = "exited"
    /\ exit_code = 0

-----------------------------------------------------------------------------
(* Properties of two publishers of one destination (specification           *)
(* SpecPublishers)                                                          *)

\* the instance whose upload completed last
LastUploader == upload_order[Len(upload_order)]

\* C14: the test of the destination and the upload are not one step, and the
\* upload overwrites: a run that found no object at its test uploads whatever
\* another run has stored since, so the destination holds what the upload
\* that completed last has sent.
C14_LastWriterWins ==
    upload_order # <<>> => remote = publishers[LastUploader].sent

\* C14 witness: both runs passed the test before either had uploaded, both
\* uploaded files of different bytes, both returned, and the destination holds
\* the file of the run that uploaded last, not that of the first
C14_Witness ==
    /\ pc = "publishers"
    /\ \A r \in Runs : /\ publishers[r].pc = "returned"
                        /\ publishers[r].uploads_at_test = 0
                        /\ publishers[r].sent = publishers[r].local_file
    /\ Len(upload_order) = 2
    /\ upload_order[1] # upload_order[2]
    /\ publishers[upload_order[1]].local_file # publishers[upload_order[2]].local_file
    /\ remote = publishers[upload_order[2]].local_file

-----------------------------------------------------------------------------
(* Properties of the corpus aggregator (specification Spec)                 *)

\* C20: for a published file the aggregator prints one object if the file
\* holds a record and none if it holds no record; the object carries as
\* newspaper and year the first two segments of the identifier of a record of
\* the file, and a counter for each of the nine properties, also when it is 0.
C20_OneAggregatePerFile ==
    pc = "aggregated" =>
        IF sink = <<>>
        THEN aggregate.raised = PyNone /\ aggregate.printed = <<>>
        ELSE /\ aggregate.raised = PyNone
             /\ Len(aggregate.printed) = 1
             /\ \E i \in 1..Len(sink) :
                   /\ aggregate.printed[1].year.newspaper = sink[i].ci_id[1]
                   /\ aggregate.printed[1].year.year = sink[i].ci_id[2]
             /\ \A prop \in PROPS :
                   CounterKey(prop, PyTrue) \in DOMAIN aggregate.printed[1].year


\* C21: for a file that one run has published, the aggregator's counter of
\* every flag equals the run's TITLE-STATUS counter of that flag (a file
\* without records has no aggregate, and the run's counters are then 0).
C21_AggregateRecomputesRunCounts ==
    pc = "aggregated" =>
        /\ aggregate.raised = PyNone
        /\ \A f \in FLAGS :
              stats[TitleStatusKey(f)] =
                  IF aggregate.printed = <<>> THEN 0
                  ELSE aggregate.printed[1].year[CounterKey(f, PyTrue)]

-----------------------------------------------------------------------------
(* Properties of the sink and of the end of run() (specification Spec)      *)

\* the with block of run() has been left: by the end of the input, by an
\* exception of process_doc or by sys.exit(1)
SinkPhaseOver ==
    \/ pc \in {"done", "aborted", "aggregated"}
    \/ pc = "exited" /\ exit_code \in {0, 1}

\* C22: once a run that got past start-up has left the phase that writes the
\* sink, the local output file exists and has been written, whatever the
\* number of records admitted; afterwards only the run's own
\* keep_timestamp_only changes it.
C22_SinkWritten ==
    SinkPhaseOver =>
        /\ outfile # "absent"
        /\ outfile = "written" \/ (outfile = "timestamp-only" /\ calls.keep_timestamp_only = 1)
        /\ pc \in {"done", "aborted"} => outfile = "written"

\* a run that read records and admitted none has left the phase with the
\* file written
C22_Witness ==
    /\ pc = "done"
    /\ nread > 0
    /\ sink = <<>>
    /\ stats["CONTENT-ITEMS-OK"] = 0
    /\ outfile = "written"

\* the lines at which process_doc returns None
RejectionLines == {408, 424, 428, 432, 456, 460}

\* a turn of the loop that handed a record to process_doc, which returned
RecordHandled ==
    /\ pc = "reading"
    /\ nread' = nread + 1
    /\ doc_locals'.line \in RejectionLines \cup {500}

\* C23 as stated: a rejected record writes nothing and the run goes on, an
\* admitted record appends its one line, and the sink holds exactly
\* CONTENT-ITEMS-OK lines.
C23_OneLinePerAdmittedRecord ==
    [][ RecordHandled =>
          /\ doc_locals'.line \in RejectionLines =>
                sink' = sink /\ pc' = "reading"
          /\ doc_locals'.line = 500 =>
                /\ sink' = Append(sink, processed_doc')
                /\ processed_doc'.ci_id = docid_of(json_obj')
          /\ Len(sink') = stats'["CONTENT-ITEMS-OK"] ]_vars

\* C23: a rejected record writes nothing and the run goes on with the next
\* record; an admitted record appends its one line to the sink, after the
\* lines of the records admitted before it, unless --validate is given and
\* validate_document rejects it: then nothing is written and the run is over,
\* with one line less in the sink than CONTENT-ITEMS-OK counts.
C23_OneLinePerWrittenRecord ==
    [][ RecordHandled =>
          /\ doc_locals'.line \in RejectionLines =>
                sink' = sink /\ pc' = "reading"
          /\ (doc_locals'.line = 500 /\ validated' # PyFalse) =>
                /\ sink' = Append(sink, processed_doc')
                /\ processed_doc'.ci_id = docid_of(json_obj')
                /\ pc' = "reading"
                /\ Len(sink') = stats'["CONTENT-ITEMS-OK"]
          /\ (doc_locals'.line = 500 /\ validated' = PyFalse) =>
                /\ sink' = sink
                /\ pc' = "exited"
                /\ Len(sink') = stats'["CONTENT-ITEMS-OK"] - 1
          /\ doc_locals'.line # 500 => Len(sink') = stats'["CONTENT-ITEMS-OK"] ]_vars

\* a record was rejected as too long, the next one was admitted and written
C23_Witness ==
    /\ pc = "reading"
    /\ nread = 2
    /\ nnull = 0
    /\ stats["CONTENT-ITEMS-LONG"] = 1
    /\ stats["CONTENT-ITEMS-OK"] = 1
    /\ doc_locals.line = 500
    /\ Len(sink) = 1
    /\ sink[1] = processed_doc

\* the texts that process_doc handed to process_text_with_spacy before it
\* returned at line 500: the title if it is not empty, and the full text
HandedTexts ==
    (IF doc_locals.title_text # <<>> THEN {doc_locals.title_text} ELSE {})
        \cup {doc_locals.full_text}

\* C24: every text that process_doc hands to the pipeline is at most
\* max_doc_length long, which is below the max_length of the pipeline.
C24_HandedTextsWithinLimit ==
    doc_locals.line = 500 =>
        \A text \in HandedTexts :
            /\ Len(text) <= args.max_doc_length
            /\ Len(text) < nlp_max_length(args)

\* a title and a full text were handed over whose lengths add up to
\* max_doc_length
C24_Witness ==
    /\ doc_locals.line = 500
    /\ doc_locals.title_text # <<>>
    /\ doc_locals.full_text # <<>>
    /\ doc_locals.text_len = args.max_doc_length
    /\ Cardinality(HandedTexts) = 2

\* C25: a run whose input holds no record leaves the loop as a run with
\* records does: it logs the totals and stands before the publication, with
\* no exception raised.
C25_EmptyInputCompletes ==
    [][ (pc = "reading" /\ nread = 0 /\ nread' = 0 /\ pc' # "reading") =>
            pc' = "done" /\ exc' = PyNone ]_vars

\* C26: the aggregator ends without exception on every file that a run has
\* published, and a record with a placeholder title is counted under unknown.
C26_AggregatorCountsEveryRecord ==
    pc = "aggregated" =>
        /\ aggregate.raised = PyNone
        /\ sink # <<>> =>
              aggregate.printed[1].year[CounterKey("unknown", PyTrue)] =
                  Cardinality({i \in 1..Len(sink) :
                                  /\ "unknown" \in DOMAIN sink[i].title_status
                                  /\ sink[i].title_status["unknown"] = PyTrue})

\* C27: the local output file is cut down to its timestamp only when the
\* destination holds a published output file; after an upload that failed the
\* local file is as the run wrote it.
C27_CompactedOnlyIfPublished ==
    /\ outfile = "timestamp-only" => remote \in {OUTFILE_BYTES, PUBLISHED_BEFORE}
    /\ (pc \in {"exited", "aggregated"} /\ upload_locals.line = 602) => outfile = "written"

=============================================================================
